---- MODULE Spec2Model ----
(***************************************************************************)
(* Table-booking back end: the booking controller                          *)
(* (backend/controllers/bookingController.js) and the table controller     *)
(* (the first module of unnamed/part_000).  Each handler is one action     *)
(* over the two stores; the storage calls of a handler are composed in     *)
(* the order the handler awaits them.                                      *)
(***************************************************************************)
EXTENDS Integers, Sequences, FiniteSets, Bags, TLC

VARIABLES
    tables,         \* table store: _id -> document
    bookings,       \* booking store: _id -> document
    nextTableId,    \* next fresh table _id
    nextBookingId,  \* next fresh booking _id
    today,          \* calendar day of `new Date()`
    inflight,       \* bag of the requests suspended at an await between two storage calls
    res,            \* the request last answered and the body given to res.json
    token,          \* LoginPopup: the token of the StoreContext
    storedToken,    \* LoginPopup: localStorage["token"]
    showLogin,      \* LoginPopup: whether the popup is shown
    currState,      \* LoginPopup: "Login" or "Sign Up"
    data,           \* LoginPopup: the fields of the form
    loading,        \* LoginPopup: a submit is being processed
    response,       \* LoginPopup: what the last axios.post settled with
    alerted         \* LoginPopup: the message of the last alert

stores == <<tables, bookings, nextTableId, nextBookingId>>

popup == <<token, storedToken, showLogin, currState, data, loading, response, alerted>>

vars == <<tables, bookings, nextTableId, nextBookingId, today, inflight, res, popup>>

----------------------------------------------------------------------------
(* Bounds of the model *)

MaxBookings == 2        \* bookings ever inserted
MaxTables == 2          \* tables ever inserted
MaxDay == 1             \* last calendar day the clock reaches (days 0..MaxDay)
MaxItems == 2           \* longest preOrderedItems list of a request
MaxInflight == 2        \* requests suspended at the same time

----------------------------------------------------------------------------
(* Values *)

Null == 0               \* a missing / null _id (falsy)
NoDate == -1            \* a missing date (falsy)

BookingStatuses == {"Pending", "Confirmed", "Completed", "Cancelled"}
ActiveStatuses == {"Pending", "Confirmed"}
validStatuses == {"available", "occupied", "reserved", "maintenance"}

Emails == {"a@x.com", "wrong@x.com"}
Times == {"18:00", "18:30"}
TableNumbers == {5, 6}
Capacities == {4}
PartySizes == {4, 6}
Items == {"item"}

\* instants are milliseconds since the local midnight that starts day 0
MsPerDay == 24 * 60 * 60 * 1000
LastMs == ((23 * 60 + 59) * 60 + 59) * 1000 + 999      \* 23:59:59.999
Midnight == 0                                           \* 00:00:00.000
Days == 0..MaxDay
Instants == {Midnight, LastMs}
Dates == {d * MsPerDay + ms : d \in Days, ms \in Instants}

MsgRequired == "Please fill all required fields"
MsgAlreadyBooked == "This table is already booked for the selected date and time"
MsgBooked == "Table booked successfully!"
MsgBookedPreOrder == "Table booked with food pre-order!"
MsgIdStatusRequired == "Booking ID and status are required"
MsgBookingNotFound == "Booking not found"
MsgStatusUpdated == "Booking status updated"
MsgIdRequired == "Booking ID is required"
MsgBookingDeleted == "Booking deleted successfully"
MsgIdEmailRequired == "Booking ID and email are required"
MsgUnauthorized == "Booking not found or unauthorized"
MsgCannotCancelCompleted == "Cannot cancel a completed booking"
MsgCannotCancelCancelled == "Cannot cancel a cancelled booking"
MsgCancelled == "Booking cancelled successfully"
MsgTableExists == "Table number already exists"
MsgTableAdded == "Table added successfully"
MsgTableIdStatusRequired == "Table ID and status are required"
MsgInvalidStatus == "Invalid status"
MsgTableNotFound == "Table not found"
MsgTableStatusUpdated == "Table status updated"
MsgTableIdRequired == "Table ID is required"
MsgTableUpdated == "Table updated successfully"
MsgTableToggled == "Table activated or deactivated"
MsgTableDeleted == "Table deleted successfully"
MsgStorageError == "error.message"
MsgSomethingWrong == "Something went wrong. Please try again."
MsgInvalidCredentials == "Invalid credentials"

Tokens == {"token1", "token2"}
Passwords == {"secret", "wrong"}

----------------------------------------------------------------------------
(* Dates: setHours(0,0,0,0), setHours(23,59,59,999) and the $gte/$lt window *)

\* new Date(d.setHours(0, 0, 0, 0))
StartOfDay(d) == d - (d % MsPerDay) + Midnight

\* new Date(d.setHours(23, 59, 59, 999))
EndOfDay(d) == d - (d % MsPerDay) + LastMs

\* { $gte: start of the day of d, $lt: end of the day of d }
InDayWindow(x, d) == StartOfDay(d) <= x /\ x < EndOfDay(d)

\* the calendar day an instant falls on
DayOf(d) == d \div MsPerDay

\* new Date(): some instant of the current day (the window keeps only its day)
Now == today * MsPerDay

----------------------------------------------------------------------------
(* Storage calls *)

Put(store, id, doc) == (id :> doc) @@ store

Remove(store, id) == [i \in DOMAIN store \ {id} |-> store[i]]

\* a write that spares a table somebody marked occupied or in maintenance
SetTableStatus_OnlyFree(tbls, id, st) ==
    IF id \in DOMAIN tbls /\ tbls[id].status \in {"available", "reserved"}
    THEN [tbls EXCEPT ![id].status = st] ELSE tbls

\* tableModel.findByIdAndUpdate(id, { status }): no document, no write
SetTableStatus(tbls, id, st) ==
    IF id \in DOMAIN tbls THEN [tbls EXCEPT ![id].status = st] ELSE tbls

\* a pre-check that takes any booking of the day for a conflict
ExistingBooking_AnyTime(bks, tableId, date, time) ==
    {b \in DOMAIN bks :
        /\ bks[b].tableId = tableId
        /\ InDayWindow(bks[b].date, date)
        /\ bks[b].status \in ActiveStatuses}

\* bookingModel.findOne of createBooking
ExistingBooking(bks, tableId, date, time) ==
    {b \in DOMAIN bks :
        /\ bks[b].tableId = tableId
        /\ InDayWindow(bks[b].date, date)
        /\ bks[b].time = time
        /\ bks[b].status \in ActiveStatuses}

\* bookingModel.find of the release check; exclude = Null when the query has no $ne
ActiveBookings(bks, tableId, exclude, now) ==
    {b \in DOMAIN bks :
        /\ bks[b].tableId = tableId
        /\ b # exclude
        /\ InDayWindow(bks[b].date, now)
        /\ bks[b].status \in ActiveStatuses}

\* the release of a table after a booking left the active set
ReleaseTable(tbls, bks, tableId, exclude, now) ==
    IF ActiveBookings(bks, tableId, exclude, now) = {}
    THEN SetTableStatus(tbls, tableId, "available")
    ELSE tbls

Respond(op, req, success, message) ==
    res' = [op |-> op, req |-> req, success |-> success, message |-> message]

----------------------------------------------------------------------------
(* Booking controller *)

\* the test `preOrderedItems.length >= 0`
HasPreOrder_AnyList(p) ==
    IF ~p.given THEN "undefined"
    ELSE IF Len(p.items) >= 0 THEN "true" ELSE "false"

\* `preOrderedItems && preOrderedItems.length > 0`: an absent list is falsy and
\* is itself the value of the && expression
HasPreOrder(p) ==
    IF ~p.given THEN "undefined"
    ELSE IF Len(p.items) > 0 THEN "true" ELSE "false"

\* `preOrderedItems || []`
StoredItems(p) == IF p.given THEN p.items ELSE <<>>

MissingRequired(req) ==
    \/ req.name = ""
    \/ req.email = ""
    \/ req.phone = ""
    \/ req.date = NoDate
    \/ req.time = ""
    \/ req.guests = 0

\* `field || ''`: a field the request does not carry is stored as ''
OrEmpty(req, field) == IF field \in DOMAIN req THEN req[field] ELSE ""

NewBooking(req) ==
    [email |-> req.email,
     date |-> req.date,
     time |-> req.time,
     guests |-> req.guests,
     tableId |-> req.tableId,
     tableNumber |-> OrEmpty(req, "tableNumber"),
     tableName |-> OrEmpty(req, "tableName"),
     status |-> "Pending",
     preOrderedItems |-> StoredItems(req.preOrderedItems),
     hasPreOrder |-> HasPreOrder(req.preOrderedItems)]

SlotTaken(bks, req) ==
    /\ req.tableId # Null
    /\ ExistingBooking(bks, req.tableId, req.date, req.time) # {}

createBooking(req) ==
    IF MissingRequired(req)
    THEN /\ Respond("createBooking", req, FALSE, MsgRequired)
         /\ UNCHANGED <<stores, today, popup, inflight>>
    ELSE IF SlotTaken(bookings, req)
    THEN /\ Respond("createBooking", req, FALSE, MsgAlreadyBooked)
         /\ UNCHANGED <<stores, today, popup, inflight>>
    ELSE /\ nextBookingId <= MaxBookings
         /\ bookings' = Put(bookings, nextBookingId, NewBooking(req))
         /\ nextBookingId' = nextBookingId + 1
         /\ tables' = IF req.tableId # Null
                      THEN SetTableStatus(tables, req.tableId, "reserved")
                      ELSE tables
         /\ Respond("createBooking", req, TRUE,
                    IF HasPreOrder(req.preOrderedItems) = "true"
                    THEN MsgBookedPreOrder ELSE MsgBooked)
         /\ UNCHANGED <<nextTableId, today, popup, inflight>>

\* a side effect without the branch for Confirmed
StatusSideEffect_ReleaseOnly(tbls, bks, bookingId, tableId, status, now) ==
    IF tableId = Null THEN tbls
    ELSE IF status \in {"Completed", "Cancelled"}
    THEN ReleaseTable(tbls, bks, tableId, bookingId, now)
    ELSE tbls

\* the storage calls createBooking awaits, in the order it awaits them
StorageCalls == {"findOne", "save", "findByIdAndUpdate"}

\* createBooking when the storage call `call` throws: the handler runs up to
\* that call, what it awaited before stays written, and the catch block
\* answers with error.message
createBookingThrows(req, call) ==
    /\ ~MissingRequired(req)
    /\ call \in {"findOne", "findByIdAndUpdate"} => req.tableId # Null
    /\ call \in {"save", "findByIdAndUpdate"} => ~SlotTaken(bookings, req)
    /\ IF call = "findByIdAndUpdate"
       THEN /\ nextBookingId <= MaxBookings
            /\ bookings' = Put(bookings, nextBookingId, NewBooking(req))
            /\ nextBookingId' = nextBookingId + 1
       ELSE UNCHANGED <<bookings, nextBookingId>>
    /\ Respond("createBooking", req, FALSE, MsgStorageError)
    /\ UNCHANGED <<tables, nextTableId, today, popup, inflight>>

\* the table side effect of updateBookingStatus, after the status write
StatusSideEffect(tbls, bks, bookingId, tableId, status, now) ==
    IF tableId = Null THEN tbls
    ELSE IF status \in {"Completed", "Cancelled"}
    THEN ReleaseTable(tbls, bks, tableId, bookingId, now)
    ELSE IF status = "Confirmed"
    THEN SetTableStatus(tbls, tableId, "reserved")
    ELSE tbls

updateBookingStatus(req) ==
    IF req.bookingId = Null \/ req.status = ""
    THEN /\ Respond("updateBookingStatus", req, FALSE, MsgIdStatusRequired)
         /\ UNCHANGED <<stores, today, popup, inflight>>
    ELSE IF req.bookingId \notin DOMAIN bookings
    THEN /\ Respond("updateBookingStatus", req, FALSE, MsgBookingNotFound)
         /\ UNCHANGED <<stores, today, popup, inflight>>
    ELSE LET booking == bookings[req.bookingId]
             updated == [bookings EXCEPT ![req.bookingId].status = req.status]
         IN  /\ bookings' = updated
             /\ tables' = StatusSideEffect(tables, updated, req.bookingId,
                                           booking.tableId, req.status, Now)
             /\ Respond("updateBookingStatus", req, TRUE, MsgStatusUpdated)
             /\ UNCHANGED <<nextTableId, nextBookingId, today, popup, inflight>>

deleteBooking(req) ==
    IF req.bookingId = Null
    THEN /\ Respond("deleteBooking", req, FALSE, MsgIdRequired)
         /\ UNCHANGED <<stores, today, popup, inflight>>
    ELSE IF req.bookingId \notin DOMAIN bookings
    THEN /\ Respond("deleteBooking", req, FALSE, MsgBookingNotFound)
         /\ UNCHANGED <<stores, today, popup, inflight>>
    ELSE LET booking == bookings[req.bookingId]
             remaining == Remove(bookings, req.bookingId)
         IN  /\ bookings' = remaining
             /\ tables' = IF booking.tableId # Null
                          THEN ReleaseTable(tables, remaining, booking.tableId, Null, Now)
                          ELSE tables
             /\ Respond("deleteBooking", req, TRUE, MsgBookingDeleted)
             /\ UNCHANGED <<nextTableId, nextBookingId, today, popup, inflight>>

\* the lookup by _id alone
FindOwnBooking_AnyEmail(bks, bookingId, email) ==
    {b \in DOMAIN bks : b = bookingId}

\* bookingModel.findOne({ _id: bookingId, email: email })
FindOwnBooking(bks, bookingId, email) ==
    {b \in DOMAIN bks : b = bookingId /\ bks[b].email = email}

\* the guard without its first disjunct
CannotCancel_CancelledOnly(status) == status = "Cancelled"

\* the guard "Only allow cancellation of pending or confirmed bookings"
CannotCancel(status) == status = "Completed" \/ status = "Cancelled"

CannotCancelMessage(status) ==
    IF status = "Completed" THEN MsgCannotCancelCompleted ELSE MsgCannotCancelCancelled

cancelUserBooking(req) ==
    IF req.bookingId = Null \/ req.email = ""
    THEN /\ Respond("cancelUserBooking", req, FALSE, MsgIdEmailRequired)
         /\ UNCHANGED <<stores, today, popup, inflight>>
    ELSE IF FindOwnBooking(bookings, req.bookingId, req.email) = {}
    THEN /\ Respond("cancelUserBooking", req, FALSE, MsgUnauthorized)
         /\ UNCHANGED <<stores, today, popup, inflight>>
    ELSE LET booking == bookings[req.bookingId]
             updated == [bookings EXCEPT ![req.bookingId].status = "Cancelled"]
         IN  IF CannotCancel(booking.status)
             THEN /\ Respond("cancelUserBooking", req, FALSE,
                             CannotCancelMessage(booking.status))
                  /\ UNCHANGED <<stores, today, popup, inflight>>
             ELSE /\ bookings' = updated
                  /\ tables' = IF booking.tableId # Null
                               THEN ReleaseTable(tables, updated, booking.tableId,
                                                 req.bookingId, Now)
                               ELSE tables
                  /\ Respond("cancelUserBooking", req, TRUE, MsgCancelled)
                  /\ UNCHANGED <<nextTableId, nextBookingId, today, popup, inflight>>

\* the passage of midnight: `new Date()` moves to the next calendar day
NextDay ==
    /\ today < MaxDay
    /\ today' = today + 1
    /\ UNCHANGED <<stores, inflight, res, popup>>

----------------------------------------------------------------------------
(* Table store: the schema of models/tableModel.js declares tableNumber      *)
(* unique, so an insert or an update that would give two documents the same *)
(* tableNumber is rejected by the store and the call throws                 *)

\* a store without the index
UniqueIndexAllows_NoIndex(tbls, id, tableNumber) == TRUE

UniqueIndexAllows(tbls, id, tableNumber) ==
    \A t \in DOMAIN tbls : t # id => tbls[t].tableNumber # tableNumber

----------------------------------------------------------------------------
(* Table controller *)

\* the lookup among the active tables only
ExistingTable_ActiveOnly(tbls, tableNumber) ==
    {t \in DOMAIN tbls : tbls[t].tableNumber = tableNumber /\ tbls[t].isActive}

\* tableModel.findOne({ tableNumber })
ExistingTable(tbls, tableNumber) ==
    {t \in DOMAIN tbls : tbls[t].tableNumber = tableNumber}

NewTable(req) ==
    [tableNumber |-> req.tableNumber,
     capacity |-> req.capacity,
     status |-> "available",
     isActive |-> TRUE]

\* newTable.save() and the response that follows it
SaveNewTable(req) ==
    IF UniqueIndexAllows(tables, nextTableId, req.tableNumber)
    THEN /\ nextTableId <= MaxTables
         /\ tables' = Put(tables, nextTableId, NewTable(req))
         /\ nextTableId' = nextTableId + 1
         /\ Respond("addTable", req, TRUE, MsgTableAdded)
    ELSE /\ Respond("addTable", req, FALSE, MsgStorageError)
         /\ UNCHANGED <<tables, nextTableId>>

addTable(req) ==
    IF ExistingTable(tables, req.tableNumber) # {}
    THEN /\ Respond("addTable", req, FALSE, MsgTableExists)
         /\ UNCHANGED <<stores, today, popup, inflight>>
    ELSE /\ SaveNewTable(req)
         /\ UNCHANGED <<bookings, nextBookingId, today, popup, inflight>>

updateTableStatus(req) ==
    IF req.tableId = Null \/ req.status = ""
    THEN /\ Respond("updateTableStatus", req, FALSE, MsgTableIdStatusRequired)
         /\ UNCHANGED <<stores, today, popup, inflight>>
    ELSE IF req.status \notin validStatuses
    THEN /\ Respond("updateTableStatus", req, FALSE, MsgInvalidStatus)
         /\ UNCHANGED <<stores, today, popup, inflight>>
    ELSE IF req.tableId \notin DOMAIN tables
    THEN /\ Respond("updateTableStatus", req, FALSE, MsgTableNotFound)
         /\ UNCHANGED <<stores, today, popup, inflight>>
    ELSE /\ tables' = SetTableStatus(tables, req.tableId, req.status)
         /\ Respond("updateTableStatus", req, TRUE, MsgTableStatusUpdated)
         /\ UNCHANGED <<bookings, nextTableId, nextBookingId, today, popup, inflight>>

\* findByIdAndUpdate(tableId, updateData): the fields of the payload replace the document's
ApplyUpdate(doc, updateData) ==
    [f \in DOMAIN doc |-> IF f \in DOMAIN updateData THEN updateData[f] ELSE doc[f]]

updateTable(req) ==
    IF req.tableId = Null
    THEN /\ Respond("updateTable", req, FALSE, MsgTableIdRequired)
         /\ UNCHANGED <<stores, today, popup, inflight>>
    ELSE IF req.tableId \notin DOMAIN tables
    THEN /\ Respond("updateTable", req, FALSE, MsgTableNotFound)
         /\ UNCHANGED <<stores, today, popup, inflight>>
    ELSE LET updated == ApplyUpdate(tables[req.tableId], req.updateData)
         IN  IF UniqueIndexAllows(tables, req.tableId, updated.tableNumber)
             THEN /\ tables' = [tables EXCEPT ![req.tableId] = updated]
                  /\ Respond("updateTable", req, TRUE, MsgTableUpdated)
                  /\ UNCHANGED <<bookings, nextTableId, nextBookingId, today, popup, inflight>>
             ELSE /\ Respond("updateTable", req, FALSE, MsgStorageError)
                  /\ UNCHANGED <<stores, today, popup, inflight>>

\* table.isActive = !table.isActive; table.save() writes the modified path, and
\* throws when the document is gone
SaveToggled(req, wasActive) ==
    IF req.tableId \in DOMAIN tables
    THEN /\ tables' = [tables EXCEPT ![req.tableId].isActive = ~wasActive]
         /\ Respond("toggleTableActive", req, TRUE, MsgTableToggled)
    ELSE /\ Respond("toggleTableActive", req, FALSE, MsgStorageError)
         /\ UNCHANGED tables

toggleTableActive(req) ==
    IF req.tableId \notin DOMAIN tables
    THEN /\ Respond("toggleTableActive", req, FALSE, MsgTableNotFound)
         /\ UNCHANGED <<stores, today, popup, inflight>>
    ELSE /\ SaveToggled(req, tables[req.tableId].isActive)
         /\ UNCHANGED <<bookings, nextTableId, nextBookingId, today, popup, inflight>>

\* a handler that refuses to delete a table with Pending or Confirmed bookings
deleteTable_KeepsBooked(req) ==
    IF req.tableId \notin DOMAIN tables
    THEN /\ Respond("deleteTable", req, FALSE, MsgTableNotFound)
         /\ UNCHANGED <<stores, today, popup, inflight>>
    ELSE IF \E b \in DOMAIN bookings :
               bookings[b].tableId = req.tableId /\ bookings[b].status \in ActiveStatuses
    THEN /\ Respond("deleteTable", req, FALSE, MsgStorageError)
         /\ UNCHANGED <<stores, today, popup, inflight>>
    ELSE /\ tables' = Remove(tables, req.tableId)
         /\ Respond("deleteTable", req, TRUE, MsgTableDeleted)
         /\ UNCHANGED <<bookings, nextTableId, nextBookingId, today, popup, inflight>>

deleteTable(req) ==
    IF req.tableId \notin DOMAIN tables
    THEN /\ Respond("deleteTable", req, FALSE, MsgTableNotFound)
         /\ UNCHANGED <<stores, today, popup, inflight>>
    ELSE /\ tables' = Remove(tables, req.tableId)
         /\ Respond("deleteTable", req, TRUE, MsgTableDeleted)
         /\ UNCHANGED <<bookings, nextTableId, nextBookingId, today, popup, inflight>>

\* tableModel.find(query): { isActive: true } and, with guests in the query,
\* capacity: { $gte: parseInt(guests) }
FindTables(tbls, guests) ==
    {t \in DOMAIN tbls :
        /\ tbls[t].isActive
        /\ guests # 0 => tbls[t].capacity >= guests}

\* the tables of the bookings found for the day of `date` at `time`
BookedTableIds(bks, date, time) ==
    {bks[b].tableId :
        b \in {x \in DOMAIN bks :
                  /\ InDayWindow(bks[x].date, date)
                  /\ bks[x].time = time
                  /\ bks[x].status \in ActiveStatuses
                  /\ bks[x].tableId # Null}}

\* the two filters of getAvailableTables, with and without date and time
AvailableTables(tbls, bks, req) ==
    IF req.date # NoDate /\ req.time # ""
    THEN {t \in FindTables(tbls, req.guests) :
             /\ t \notin BookedTableIds(bks, req.date, req.time)
             /\ tbls[t].status # "maintenance"}
    ELSE {t \in FindTables(tbls, req.guests) : tbls[t].status # "maintenance"}

\* .sort({ capacity: 1 }): every order of S by ascending capacity (the order
\* of two tables of one capacity is the store's)
SortedByCapacity(tbls, S) ==
    {q \in [1..Cardinality(S) -> S] :
        /\ \A i, j \in DOMAIN q : i # j => q[i] # q[j]
        /\ \A i, j \in DOMAIN q : i < j => tbls[q[i]].capacity <= tbls[q[j]].capacity}

\* data lists the _ids of the documents returned
getAvailableTables(req) ==
    /\ \E sorted \in SortedByCapacity(tables, AvailableTables(tables, bookings, req)) :
          res' = [op |-> "getAvailableTables", req |-> req, success |-> TRUE,
                  message |-> "", data |-> sorted]
    /\ UNCHANGED <<stores, today, popup, inflight>>

----------------------------------------------------------------------------
(* The two table handlers that await twice, one storage call per step *)

\* two suspended requests with equal bodies are still two requests
Suspend(r) == inflight' = inflight (+) SetToBag({r})

Resume(r) == inflight' = inflight (-) SetToBag({r})

\* addTable up to its first await: the findOne
addTableFind(req) ==
    IF ExistingTable(tables, req.tableNumber) # {}
    THEN /\ Respond("addTable", req, FALSE, MsgTableExists)
         /\ UNCHANGED <<stores, today, popup, inflight>>
    ELSE /\ BagCardinality(inflight) < MaxInflight
         /\ Suspend([op |-> "addTable", req |-> req, read |-> TRUE])
         /\ UNCHANGED <<stores, today, popup, res>>

\* addTable from the save on
addTableSave(r) ==
    /\ r.op = "addTable"
    /\ Resume(r)
    /\ SaveNewTable(r.req)
    /\ UNCHANGED <<bookings, nextBookingId, today, popup>>

\* toggleTableActive up to its first await: the findById
toggleTableActiveFind(req) ==
    IF req.tableId \notin DOMAIN tables
    THEN /\ Respond("toggleTableActive", req, FALSE, MsgTableNotFound)
         /\ UNCHANGED <<stores, today, popup, inflight>>
    ELSE /\ BagCardinality(inflight) < MaxInflight
         /\ Suspend([op |-> "toggleTableActive", req |-> req,
                     read |-> tables[req.tableId].isActive])
         /\ UNCHANGED <<stores, today, popup, res>>

\* toggleTableActive from the save on
toggleTableActiveSave(r) ==
    /\ r.op = "toggleTableActive"
    /\ Resume(r)
    /\ SaveToggled(r.req, r.read)
    /\ UNCHANGED <<bookings, nextTableId, nextBookingId, today, popup>>

----------------------------------------------------------------------------
(* createBooking, one storage call per step: the findOne of the pre-check,  *)
(* newBooking.save(), and the findByIdAndUpdate of the table                *)

\* the suspended request moves on to its next await
Advance(r, next) == inflight' = (inflight (-) SetToBag({r})) (+) SetToBag({next})

\* createBooking up to the await of its pre-check; a request that is refused,
\* or that names no table and so awaits nothing but its save, is answered at once
createBookingFind(req) ==
    IF MissingRequired(req) \/ req.tableId = Null \/ SlotTaken(bookings, req)
    THEN createBooking(req)
    ELSE /\ BagCardinality(inflight) < MaxInflight
         /\ Suspend([op |-> "createBooking", req |-> req, read |-> Null, pc |-> "save"])
         /\ UNCHANGED <<stores, today, popup, res>>

\* a save that looks for the slot again and refuses
createBookingSave_CheckedAgain(r) ==
    /\ r.op = "createBooking"
    /\ r.pc = "save"
    /\ IF SlotTaken(bookings, r.req)
       THEN /\ Resume(r)
            /\ Respond("createBooking", r.req, FALSE, MsgAlreadyBooked)
            /\ UNCHANGED <<stores, today, popup>>
       ELSE /\ nextBookingId <= MaxBookings
            /\ bookings' = Put(bookings, nextBookingId, NewBooking(r.req))
            /\ nextBookingId' = nextBookingId + 1
            /\ Advance(r, [r EXCEPT !.read = nextBookingId, !.pc = "reserve"])
            /\ UNCHANGED <<tables, nextTableId, today, popup, res>>

\* createBooking resumed after the pre-check found nothing: newBooking.save()
createBookingSave(r) ==
    /\ r.op = "createBooking"
    /\ r.pc = "save"
    /\ nextBookingId <= MaxBookings
    /\ bookings' = Put(bookings, nextBookingId, NewBooking(r.req))
    /\ nextBookingId' = nextBookingId + 1
    /\ Advance(r, [r EXCEPT !.read = nextBookingId, !.pc = "reserve"])
    /\ UNCHANGED <<tables, nextTableId, today, popup, res>>

\* createBooking resumed after the save: the table write and the response
createBookingReserve(r) ==
    /\ r.op = "createBooking"
    /\ r.pc = "reserve"
    /\ Resume(r)
    /\ tables' = SetTableStatus(tables, r.req.tableId, "reserved")
    /\ Respond("createBooking", r.req, TRUE,
               IF HasPreOrder(r.req.preOrderedItems) = "true"
               THEN MsgBookedPreOrder ELSE MsgBooked)
    /\ UNCHANGED <<bookings, nextTableId, nextBookingId, today, popup>>

----------------------------------------------------------------------------
(* The two cancellations, one storage call per step: the lookup of the      *)
(* booking, the write of its status, the query for the other active         *)
(* bookings of the table, and the write of the table                        *)

\* cancelUserBooking up to the await of its findOne; `read` keeps the document found
cancelUserBookingFind(req) ==
    IF \/ req.bookingId = Null
       \/ req.email = ""
       \/ FindOwnBooking(bookings, req.bookingId, req.email) = {}
       \/ CannotCancel(bookings[req.bookingId].status)
    THEN cancelUserBooking(req)
    ELSE /\ BagCardinality(inflight) < MaxInflight
         /\ Suspend([op |-> "cancelUserBooking", req |-> req,
                     read |-> bookings[req.bookingId], pc |-> "save"])
         /\ UNCHANGED <<stores, today, popup, res>>

\* booking.save(): the status path is written; the save throws when the
\* document is gone.  Without a table the handler answers at once.
cancelUserBookingSave(r) ==
    /\ r.op = "cancelUserBooking"
    /\ r.pc = "save"
    /\ IF r.req.bookingId \notin DOMAIN bookings
       THEN /\ Resume(r)
            /\ Respond("cancelUserBooking", r.req, FALSE, MsgStorageError)
            /\ UNCHANGED bookings
       ELSE /\ bookings' = [bookings EXCEPT ![r.req.bookingId].status = "Cancelled"]
            /\ IF r.read.tableId # Null
               THEN Advance(r, [r EXCEPT !.pc = "find"]) /\ UNCHANGED res
               ELSE Resume(r) /\ Respond("cancelUserBooking", r.req, TRUE, MsgCancelled)
    /\ UNCHANGED <<tables, nextTableId, nextBookingId, today, popup>>

\* the find of the other active bookings of the table today; with one found
\* the handler answers at once
cancelUserBookingActive(r) ==
    /\ r.op = "cancelUserBooking"
    /\ r.pc = "find"
    /\ IF ActiveBookings(bookings, r.read.tableId, r.req.bookingId, Now) = {}
       THEN Advance(r, [r EXCEPT !.pc = "release"]) /\ UNCHANGED res
       ELSE Resume(r) /\ Respond("cancelUserBooking", r.req, TRUE, MsgCancelled)
    /\ UNCHANGED <<stores, today, popup>>

\* tableModel.findByIdAndUpdate(booking.tableId, { status: 'available' })
cancelUserBookingRelease(r) ==
    /\ r.op = "cancelUserBooking"
    /\ r.pc = "release"
    /\ Resume(r)
    /\ tables' = SetTableStatus(tables, r.read.tableId, "available")
    /\ Respond("cancelUserBooking", r.req, TRUE, MsgCancelled)
    /\ UNCHANGED <<bookings, nextTableId, nextBookingId, today, popup>>

\* updateBookingStatus up to the await of its findById
updateBookingStatusFind(req) ==
    IF req.bookingId = Null \/ req.status = "" \/ req.bookingId \notin DOMAIN bookings
    THEN updateBookingStatus(req)
    ELSE /\ BagCardinality(inflight) < MaxInflight
         /\ Suspend([op |-> "updateBookingStatus", req |-> req,
                     read |-> bookings[req.bookingId], pc |-> "update"])
         /\ UNCHANGED <<stores, today, popup, res>>

\* bookingModel.findByIdAndUpdate(bookingId, { status }): no document, no
\* write; then the branch of the table side effect is taken
updateBookingStatusUpdate(r) ==
    /\ r.op = "updateBookingStatus"
    /\ r.pc = "update"
    /\ bookings' = IF r.req.bookingId \in DOMAIN bookings
                   THEN [bookings EXCEPT ![r.req.bookingId].status = r.req.status]
                   ELSE bookings
    /\ IF r.read.tableId # Null /\ r.req.status \in {"Completed", "Cancelled"}
       THEN Advance(r, [r EXCEPT !.pc = "find"]) /\ UNCHANGED res
       ELSE IF r.read.tableId # Null /\ r.req.status = "Confirmed"
       THEN Advance(r, [r EXCEPT !.pc = "reserve"]) /\ UNCHANGED res
       ELSE Resume(r) /\ Respond("updateBookingStatus", r.req, TRUE, MsgStatusUpdated)
    /\ UNCHANGED <<tables, nextTableId, nextBookingId, today, popup>>

\* the find of the other active bookings of the table today
updateBookingStatusActive(r) ==
    /\ r.op = "updateBookingStatus"
    /\ r.pc = "find"
    /\ IF ActiveBookings(bookings, r.read.tableId, r.req.bookingId, Now) = {}
       THEN Advance(r, [r EXCEPT !.pc = "release"]) /\ UNCHANGED res
       ELSE Resume(r) /\ Respond("updateBookingStatus", r.req, TRUE, MsgStatusUpdated)
    /\ UNCHANGED <<stores, today, popup>>

\* the table write of either branch, and the response
updateBookingStatusTable(r) ==
    /\ r.op = "updateBookingStatus"
    /\ r.pc \in {"release", "reserve"}
    /\ Resume(r)
    /\ tables' = SetTableStatus(tables, r.read.tableId,
                                IF r.pc = "release" THEN "available" ELSE "reserved")
    /\ Respond("updateBookingStatus", r.req, TRUE, MsgStatusUpdated)
    /\ UNCHANGED <<bookings, nextTableId, nextBookingId, today, popup>>

----------------------------------------------------------------------------
(* LoginPopup (the component at the end of unnamed/part_000): the form, its *)
(* submit handler onLogin, suspended at `await axios.post`, and the close   *)
(* icon.  The server behind /api/user answers as it likes.                  *)

NoResponse == [settled |-> "none", success |-> FALSE, token |-> "", message |-> ""]

\* what axios.post settles with: a body { success: true, token }, a body
\* { success: false, message }, or a rejection
Responses ==
    {[settled |-> "resolved", success |-> TRUE, token |-> t, message |-> ""] : t \in Tokens}
    \cup {[settled |-> "resolved", success |-> FALSE, token |-> "",
           message |-> MsgInvalidCredentials],
          [settled |-> "rejected", success |-> FALSE, token |-> "", message |-> ""]}

\* currState.toLowerCase()
ToLowerCase(str) == IF str = "Login" THEN "login" ELSE "sign up"

\* the inputs marked `required` that the form shows in this mode
RequiredFilled ==
    /\ currState = "Sign Up" => data.name # ""
    /\ data.email # ""
    /\ data.password # ""

\* onChangeHandler: the field typed in takes the value typed
onChangeHandler(name, value) ==
    /\ showLogin
    /\ name = "name" => currState = "Sign Up"
    /\ data' = [data EXCEPT ![name] = value]
    /\ UNCHANGED <<token, storedToken, showLogin, currState, loading, response, alerted>>
    /\ UNCHANGED <<stores, today, inflight, res>>

\* the span under the form: setCurrState("Login") or setCurrState("Sign Up")
setCurrState(s) ==
    /\ showLogin
    /\ currState # s
    /\ currState' = s
    /\ UNCHANGED <<token, storedToken, showLogin, data, loading, response, alerted>>
    /\ UNCHANGED <<stores, today, inflight, res>>

\* the close icon: setShowLogin(false)
closeLogin ==
    /\ showLogin
    /\ showLogin' = FALSE
    /\ UNCHANGED <<token, storedToken, currState, data, loading, response, alerted>>
    /\ UNCHANGED <<stores, today, inflight, res>>

\* onLogin up to `await axios.post(newUrl, data)`; the button is disabled
\* while loading
onLogin ==
    /\ showLogin
    /\ ~loading
    /\ RequiredFilled
    /\ BagCardinality(inflight) < MaxInflight
    /\ loading' = TRUE
    /\ Suspend([op |-> "onLogin",
                req |-> [url |-> ToLowerCase(currState), data |-> data],
                read |-> Null])
    /\ UNCHANGED <<token, storedToken, showLogin, currState, data, response, alerted>>
    /\ UNCHANGED <<stores, today, res>>

\* a handler that closes the popup in its finally block
onLoginSettled_ClosesAlways(r, resp) ==
    /\ r.op = "onLogin"
    /\ Resume(r)
    /\ response' = resp
    /\ IF resp.settled = "resolved" /\ resp.success
       THEN /\ token' = resp.token
            /\ storedToken' = resp.token
            /\ UNCHANGED alerted
       ELSE /\ alerted' = IF resp.settled = "resolved" THEN resp.message
                          ELSE MsgSomethingWrong
            /\ UNCHANGED <<token, storedToken>>
    /\ showLogin' = FALSE
    /\ loading' = FALSE
    /\ UNCHANGED <<currState, data>>
    /\ UNCHANGED <<stores, today, res>>

\* onLogin resumed when axios.post has settled: try, catch and finally
onLoginSettled(r, resp) ==
    /\ r.op = "onLogin"
    /\ Resume(r)
    /\ response' = resp
    /\ IF resp.settled = "resolved" /\ resp.success
       THEN /\ token' = resp.token
            /\ storedToken' = resp.token
            /\ showLogin' = FALSE
            /\ UNCHANGED alerted
       ELSE /\ alerted' = IF resp.settled = "resolved" THEN resp.message
                          ELSE MsgSomethingWrong
            /\ UNCHANGED <<token, storedToken, showLogin>>
    /\ loading' = FALSE
    /\ UNCHANGED <<currState, data>>
    /\ UNCHANGED <<stores, today, res>>

----------------------------------------------------------------------------
Init ==
    /\ tables = [i \in {} |-> 0]
    /\ bookings = [i \in {} |-> 0]
    /\ nextTableId = 1
    /\ nextBookingId = 1
    /\ today = 0
    /\ inflight = EmptyBag
    /\ res = [op |-> "none", req |-> [x |-> 0], success |-> TRUE, message |-> ""]
    /\ token = ""
    /\ storedToken = ""
    /\ showLogin = TRUE
    /\ currState = "Login"
    /\ data = [name |-> "", email |-> "", password |-> ""]
    /\ loading = FALSE
    /\ response = NoResponse
    /\ alerted = ""

----------------------------------------------------------------------------
(* Requests the clients send *)

NoPreOrder == [given |-> FALSE, items |-> <<>>]

RECURSIVE SeqsUpTo(_, _)
SeqsUpTo(S, n) ==
    IF n = 0 THEN {<<>>}
    ELSE LET shorter == SeqsUpTo(S, n - 1)
         IN  shorter \cup {Append(q, x) : q \in shorter, x \in S}

PreOrders ==
    {NoPreOrder} \cup {[given |-> TRUE, items |-> q] : q \in SeqsUpTo(Items, MaxItems)}

\* ids a client can have learnt: every _id handed out so far
KnownTableIds == 1..(nextTableId - 1)
KnownBookingIds == 1..(nextBookingId - 1)

CompleteBooking(emails, dates, times, tableIds, preOrders) ==
    [name : {"A"}, email : emails, phone : {"123"}, date : dates, time : times,
     guests : {2}, tableId : tableIds, preOrderedItems : preOrders]

\* one request per required field, with that field missing
IncompleteBooking(r) ==
    {[r EXCEPT !.name = ""], [r EXCEPT !.email = ""], [r EXCEPT !.phone = ""],
     [r EXCEPT !.date = NoDate], [r EXCEPT !.time = ""], [r EXCEPT !.guests = 0]}

SampleBooking ==
    [name |-> "A", email |-> "a@x.com", phone |-> "123", date |-> 0, time |-> "18:00",
     guests |-> 2, tableId |-> Null, preOrderedItems |-> NoPreOrder]

StatusRequests(ids, statuses) == [bookingId : ids, status : statuses]

CancelRequests(ids, emails) == [bookingId : ids, email : emails]

TableRequests(numbers, capacities) == [tableNumber : numbers, capacity : capacities]

Restrict(r, S) == [f \in S |-> r[f]]

\* the payloads of updateTable: any subset of the fields, each with any value
UpdateData(fields) ==
    {Restrict(full, S) :
        full \in [tableNumber : TableNumbers, capacity : Capacities,
                  status : validStatuses, isActive : BOOLEAN],
        S \in SUBSET fields}

----------------------------------------------------------------------------
(* The booking life cycle: every booking handler, run to completion, on one  *)
(* table the administration adds and marks, while the days pass             *)

AddTable == \E req \in TableRequests({5}, {4}) : addTable(req)

UpdateTableStatus ==
    \E req \in [tableId : KnownTableIds, status : validStatuses] : updateTableStatus(req)

CreateBooking ==
    \E req \in CompleteBooking({"a@x.com"}, Dates, {"18:00"}, KnownTableIds \cup {Null}, {NoPreOrder})
               \cup {[SampleBooking EXCEPT !.guests = 0]} :
        createBooking(req)

UpdateBookingStatus ==
    \E req \in StatusRequests(KnownBookingIds \cup {nextBookingId}, BookingStatuses)
               \cup {[bookingId |-> Null, status |-> ""]} :
        updateBookingStatus(req)

DeleteBooking ==
    \E req \in [bookingId : KnownBookingIds \cup {nextBookingId, Null}] : deleteBooking(req)

CancelUserBooking ==
    \E req \in CancelRequests(KnownBookingIds \cup {nextBookingId}, {"a@x.com"}) :
        cancelUserBooking(req)

Next ==
    \/ AddTable
    \/ UpdateTableStatus
    \/ CreateBooking
    \/ UpdateBookingStatus
    \/ DeleteBooking
    \/ CancelUserBooking
    \/ NextDay

Spec == Init /\ [][Next]_vars

----------------------------------------------------------------------------
(* Slots: bookings of one table over several days and times of the day *)

SlotCreateBooking ==
    \E req \in CompleteBooking({"a@x.com"}, Dates, Times, KnownTableIds \cup {Null}, {NoPreOrder}) :
        createBooking(req)

SlotUpdateBookingStatus ==
    \E req \in StatusRequests(KnownBookingIds, BookingStatuses) : updateBookingStatus(req)

SlotCancelUserBooking ==
    \E req \in CancelRequests(KnownBookingIds, {"a@x.com"}) : cancelUserBooking(req)

SlotDeleteBooking ==
    \E req \in [bookingId : KnownBookingIds] : deleteBooking(req)

NextSlot ==
    \/ AddTable
    \/ SlotCreateBooking
    \/ SlotUpdateBookingStatus
    \/ SlotCancelUserBooking
    \/ SlotDeleteBooking

SpecSlot == Init /\ [][NextSlot]_vars

----------------------------------------------------------------------------
(* Two guests: bookings of two guests on one slot of one table, cancelled   *)
(* with either address, with none, or without a booking id                  *)

GuestCreateBooking ==
    \E req \in CompleteBooking(Emails, {Midnight}, {"18:00"}, KnownTableIds \cup {Null}, {NoPreOrder}) :
        createBooking(req)

GuestCancelUserBooking ==
    \E req \in CancelRequests(KnownBookingIds \cup {nextBookingId}, Emails)
               \cup CancelRequests(KnownBookingIds, {""})
               \cup CancelRequests({Null}, {"a@x.com"}) :
        cancelUserBooking(req)

NextGuests ==
    \/ AddTable
    \/ UpdateTableStatus
    \/ GuestCreateBooking
    \/ SlotUpdateBookingStatus
    \/ GuestCancelUserBooking
    \/ SlotDeleteBooking

SpecGuests == Init /\ [][NextGuests]_vars

----------------------------------------------------------------------------
(* Pre-orders: bookings created with every shape of preOrderedItems *)

PreOrderCreateBooking ==
    \E req \in CompleteBooking({"a@x.com"}, {Midnight}, Times, {Null}, PreOrders) :
        createBooking(req)

NextPreOrder ==
    \/ PreOrderCreateBooking
    \/ SlotUpdateBookingStatus
    \/ SlotCancelUserBooking
    \/ SlotDeleteBooking

SpecPreOrder == Init /\ [][NextPreOrder]_vars

----------------------------------------------------------------------------
(* Table administration, every handler run to completion *)

AdminAddTable == \E req \in TableRequests(TableNumbers, Capacities) : addTable(req)

AdminUpdateTableStatus ==
    \E req \in [tableId : KnownTableIds \cup {nextTableId, Null},
                status : validStatuses \cup {"", "closed"}] :
        updateTableStatus(req)

AdminUpdateTable ==
    \E req \in [tableId : KnownTableIds \cup {Null},
                updateData : UpdateData({"tableNumber", "status", "isActive"})] :
        updateTable(req)

AdminToggleTableActive ==
    \E req \in [tableId : KnownTableIds \cup {nextTableId}] : toggleTableActive(req)

AdminDeleteTable ==
    \E req \in [tableId : KnownTableIds \cup {nextTableId}] : deleteTable(req)

NextTables ==
    \/ AdminAddTable
    \/ AdminUpdateTableStatus
    \/ AdminUpdateTable
    \/ AdminToggleTableActive
    \/ AdminDeleteTable

SpecTables == Init /\ [][NextTables]_vars

----------------------------------------------------------------------------
(* Table administration, the requests interleaved at their storage calls *)

AddTableFind == \E req \in TableRequests(TableNumbers, Capacities) : addTableFind(req)

AddTableSave == \E r \in BagToSet(inflight) : addTableSave(r)

ToggleTableActiveFind == \E req \in [tableId : KnownTableIds] : toggleTableActiveFind(req)

ToggleTableActiveSave == \E r \in BagToSet(inflight) : toggleTableActiveSave(r)

RaceUpdateTableStatus ==
    \E req \in [tableId : KnownTableIds, status : {"maintenance"}] : updateTableStatus(req)

RaceUpdateTable ==
    \E req \in [tableId : KnownTableIds, updateData : UpdateData({"tableNumber", "isActive"})] :
        updateTable(req)

RaceDeleteTable == \E req \in [tableId : KnownTableIds] : deleteTable(req)

NextTablesRace ==
    \/ AddTableFind
    \/ AddTableSave
    \/ ToggleTableActiveFind
    \/ ToggleTableActiveSave
    \/ RaceUpdateTableStatus
    \/ RaceUpdateTable
    \/ RaceDeleteTable

SpecTablesRace == Init /\ [][NextTablesRace]_vars

----------------------------------------------------------------------------
(* Availability: the tables offered to a guest, among tables of two sizes   *)
(* that are booked, deactivated and put in maintenance                      *)

\* a table for two and a table for four
AvailAddTable ==
    \E req \in {[tableNumber |-> 5, capacity |-> 2], [tableNumber |-> 6, capacity |-> 4]} :
        addTable(req)

AvailUpdateTableStatus ==
    \E req \in [tableId : KnownTableIds, status : {"maintenance"}] : updateTableStatus(req)

AvailToggleTableActive == \E req \in [tableId : KnownTableIds] : toggleTableActive(req)

AvailCreateBooking ==
    \E req \in CompleteBooking({"a@x.com"}, Instants, {"18:00"}, KnownTableIds \cup {Null},
                               {NoPreOrder}) :
        createBooking(req)

AvailCancelUserBooking ==
    \E req \in CancelRequests(KnownBookingIds, {"a@x.com"}) : cancelUserBooking(req)

GetAvailableTables ==
    \E req \in [date : {Midnight, NoDate}, time : Times, guests : PartySizes \cup {0}] :
        getAvailableTables(req)

NextAvailable ==
    \/ AvailAddTable
    \/ AvailUpdateTableStatus
    \/ AvailToggleTableActive
    \/ AvailCreateBooking
    \/ AvailCancelUserBooking
    \/ GetAvailableTables

SpecAvailable == Init /\ [][NextAvailable]_vars

----------------------------------------------------------------------------
(* Two guests booking one table for today, their requests interleaved at    *)
(* the storage calls                                                        *)

CreateBookingFind ==
    \E req \in CompleteBooking(Emails, {Midnight}, Times, KnownTableIds \cup {Null},
                               {NoPreOrder}) :
        createBookingFind(req)

CreateBookingSave == \E r \in BagToSet(inflight) : createBookingSave(r)

CreateBookingReserve == \E r \in BagToSet(inflight) : createBookingReserve(r)

NextCreateRace ==
    \/ AddTable
    \/ CreateBookingFind
    \/ CreateBookingSave
    \/ CreateBookingReserve

SpecCreateRace == Init /\ [][NextCreateRace]_vars

----------------------------------------------------------------------------
(* The login popup: a visitor fills the form, switches its mode, submits    *)
(* and closes it; every request sent is settled in the end                  *)

OnChangeHandler ==
    \E name \in {"name", "email", "password"} :
        \E value \in (CASE name = "name" -> {"A"}
                        [] name = "email" -> {"a@x.com"}
                        [] name = "password" -> Passwords) :
            onChangeHandler(name, value)

SetCurrState == \E s \in {"Login", "Sign Up"} : setCurrState(s)

CloseLogin == closeLogin

OnLogin == onLogin

OnLoginSettled ==
    \E r \in BagToSet(inflight) : \E resp \in Responses : onLoginSettled(r, resp)

NextLogin ==
    \/ OnChangeHandler
    \/ SetCurrState
    \/ CloseLogin
    \/ OnLogin
    \/ OnLoginSettled

SpecLogin == Init /\ [][NextLogin]_vars

\* the promise of axios.post settles, and the handler resumes when it does
SpecLoginLive == SpecLogin /\ WF_vars(OnLoginSettled)

----------------------------------------------------------------------------
(* Times of the day: bookings of one table on one date at several times *)

TimesCreateBooking ==
    \E req \in CompleteBooking({"a@x.com"}, {Midnight}, Times, KnownTableIds \cup {Null},
                               {NoPreOrder}) :
        createBooking(req)

NextTimes ==
    \/ AddTable
    \/ TimesCreateBooking
    \/ SlotUpdateBookingStatus
    \/ SlotCancelUserBooking
    \/ SlotDeleteBooking

SpecTimes == Init /\ [][NextTimes]_vars

----------------------------------------------------------------------------
(* Tables deleted under their bookings: bookings that carry the number and  *)
(* the name of their table, and an administration that deletes tables       *)

TableCreateBooking ==
    \E req \in {[r EXCEPT !.tableId = t] @@ [tableNumber |-> 5, tableName |-> "Window"] :
                   r \in {SampleBooking}, t \in KnownTableIds} \cup {SampleBooking} :
        createBooking(req)

TableDeleteTable == \E req \in [tableId : KnownTableIds \cup {nextTableId}] : deleteTable(req)

NextOrphans ==
    \/ AddTable
    \/ TableCreateBooking
    \/ SlotUpdateBookingStatus
    \/ SlotCancelUserBooking
    \/ TableDeleteTable

SpecOrphans == Init /\ [][NextOrphans]_vars

----------------------------------------------------------------------------
(* A booking made while another booking of the table is cancelled, the      *)
(* requests interleaved at the storage calls; every booking is for today    *)

TodayCreateBookingFind ==
    \E req \in CompleteBooking({"a@x.com"}, {Midnight}, {"18:00"}, KnownTableIds,
                               {NoPreOrder}) :
        createBookingFind(req)

CancelUserBookingFind ==
    \E req \in CancelRequests(KnownBookingIds, {"a@x.com"}) : cancelUserBookingFind(req)

CancelUserBookingSave == \E r \in BagToSet(inflight) : cancelUserBookingSave(r)

CancelUserBookingActive == \E r \in BagToSet(inflight) : cancelUserBookingActive(r)

CancelUserBookingRelease == \E r \in BagToSet(inflight) : cancelUserBookingRelease(r)

UpdateBookingStatusFind ==
    \E req \in StatusRequests(KnownBookingIds, {"Confirmed", "Cancelled"}) :
        updateBookingStatusFind(req)

UpdateBookingStatusUpdate == \E r \in BagToSet(inflight) : updateBookingStatusUpdate(r)

UpdateBookingStatusActive == \E r \in BagToSet(inflight) : updateBookingStatusActive(r)

UpdateBookingStatusTable == \E r \in BagToSet(inflight) : updateBookingStatusTable(r)

NextCancelRace ==
    \/ AddTable
    \/ TodayCreateBookingFind
    \/ CreateBookingSave
    \/ CreateBookingReserve
    \/ CancelUserBookingFind
    \/ CancelUserBookingSave
    \/ CancelUserBookingActive
    \/ CancelUserBookingRelease
    \/ UpdateBookingStatusFind
    \/ UpdateBookingStatusUpdate
    \/ UpdateBookingStatusActive
    \/ UpdateBookingStatusTable

SpecCancelRace == Init /\ [][NextCancelRace]_vars

----------------------------------------------------------------------------
(* Refusals: createBooking with incomplete requests, on taken slots, and    *)
(* with a storage call that throws                                          *)

RefusedCreateBooking ==
    \E req \in CompleteBooking({"a@x.com"}, {Midnight}, Times, KnownTableIds \cup {Null},
                               {NoPreOrder})
               \cup IncompleteBooking(SampleBooking) :
        createBooking(req)

CreateBookingThrows ==
    \E req \in CompleteBooking({"a@x.com"}, {Midnight}, Times, KnownTableIds \cup {Null},
                               {NoPreOrder}) :
        \E call \in StorageCalls : createBookingThrows(req, call)

NextRefusals ==
    \/ AddTable
    \/ RefusedCreateBooking
    \/ CreateBookingThrows
    \/ SlotCancelUserBooking

SpecRefusals == Init /\ [][NextRefusals]_vars

----------------------------------------------------------------------------
(* Steps of the handlers, told by the answer they leave *)

CreateBookingStep == res'.op = "createBooking" /\ createBooking(res'.req)

UpdateBookingStatusStep == res'.op = "updateBookingStatus" /\ updateBookingStatus(res'.req)

CancelUserBookingStep == res'.op = "cancelUserBooking" /\ cancelUserBooking(res'.req)

AddTableStep == res'.op = "addTable" /\ addTable(res'.req)

CreateBookingThrowsStep ==
    /\ res'.op = "createBooking"
    /\ \E call \in StorageCalls : createBookingThrows(res'.req, call)

DeleteTableStep == res'.op = "deleteTable" /\ deleteTable(res'.req)

DeleteBookingStep == res'.op = "deleteBooking" /\ deleteBooking(res'.req)

GetAvailableTablesStep == res'.op = "getAvailableTables" /\ getAvailableTables(res'.req)

Range(q) == {q[i] : i \in DOMAIN q}

Active(bks, b) == bks[b].status \in ActiveStatuses

Terminal(bks, b) == bks[b].status \in {"Completed", "Cancelled"}

----------------------------------------------------------------------------
(* Properties *)

\* C1: for every (tableId, date, time) with a table, at most one booking is
\* Pending or Confirmed.
C1_OneActiveBookingPerSlot ==
    \A b1, b2 \in DOMAIN bookings :
        /\ bookings[b1].tableId # Null
        /\ bookings[b1].tableId = bookings[b2].tableId
        /\ bookings[b1].date = bookings[b2].date
        /\ bookings[b1].time = bookings[b2].time
        /\ Active(bookings, b1)
        /\ Active(bookings, b2)
        => b1 = b2

\* C2: a complete createBooking for a table that has a Pending or Confirmed
\* booking on the same calendar day at the same time is answered success=false
\* with the 'already booked' message, adds no booking and leaves the tables alone.
C2_ConflictRejected ==
    [][(/\ CreateBookingStep
        /\ ~MissingRequired(res'.req)
        /\ res'.req.tableId # Null
        /\ \E b \in DOMAIN bookings :
              /\ bookings[b].tableId = res'.req.tableId
              /\ DayOf(bookings[b].date) = DayOf(res'.req.date)
              /\ bookings[b].time = res'.req.time
              /\ Active(bookings, b))
       => (/\ res'.success = FALSE
           /\ res'.message = MsgAlreadyBooked
           /\ bookings' = bookings
           /\ tables' = tables)]_vars

\* C3: a booking that is Completed or Cancelled keeps that status for as long
\* as it is stored.
C3_TerminalStatusKept ==
    [][\A b \in DOMAIN bookings \cap DOMAIN bookings' :
          Terminal(bookings, b) => bookings'[b].status = bookings[b].status]_vars

\* C4: after a booking of table t was completed or cancelled, t is 'available'
\* if no other booking of t dated within the current day is Pending or
\* Confirmed, and t keeps its status if there is one.
C4_ReleaseIffNoOtherActiveToday ==
    [][(\/ (UpdateBookingStatusStep /\ res'.req.status \in {"Completed", "Cancelled"})
        \/ CancelUserBookingStep)
       /\ res'.success
       => LET b == res'.req.bookingId
              t == bookings[b].tableId
              others == {o \in DOMAIN bookings \ {b} :
                            /\ bookings[o].tableId = t
                            /\ DayOf(bookings[o].date) = today
                            /\ Active(bookings, o)}
          IN  t \in DOMAIN tables =>
                 tables'[t].status = IF others = {} THEN "available"
                                     ELSE tables[t].status]_vars

\* C5 as stated: a cancelUserBooking whose email is not the stored email of the
\* booking (or that names no booking) is answered success=false with 'Booking
\* not found or unauthorized' and changes no booking and no table.
C5_MismatchUnauthorized ==
    [][(/\ CancelUserBookingStep
        /\ \A b \in DOMAIN bookings :
              b = res'.req.bookingId => bookings[b].email # res'.req.email)
       => (/\ res'.success = FALSE
           /\ res'.message = MsgUnauthorized
           /\ bookings' = bookings
           /\ tables' = tables)]_vars

\* C5, amended: with a booking id and an email both given, such a request is
\* answered success=false with 'Booking not found or unauthorized'; with either
\* one missing it is answered success=false with 'Booking ID and email are
\* required'; in both cases no booking and no table changes.
C5_MismatchRefused ==
    [][(/\ CancelUserBookingStep
        /\ \A b \in DOMAIN bookings :
              b = res'.req.bookingId => bookings[b].email # res'.req.email)
       => (/\ res'.success = FALSE
           /\ res'.message = IF res'.req.bookingId # Null /\ res'.req.email # ""
                             THEN MsgUnauthorized ELSE MsgIdEmailRequired
           /\ bookings' = bookings
           /\ tables' = tables)]_vars

\* a guest's Pending or Confirmed booking of a reserved table, just refused to
\* another guest's address
C5_Witness ==
    /\ res.op = "cancelUserBooking"
    /\ res.message = MsgUnauthorized
    /\ res.req.bookingId \in DOMAIN bookings
    /\ LET booking == bookings[res.req.bookingId]
       IN  /\ booking.email # res.req.email
           /\ booking.status \in ActiveStatuses
           /\ booking.tableId \in DOMAIN tables
           /\ tables[booking.tableId].status = "reserved"

\* C6: cancelUserBooking with the stored email on a Completed or Cancelled
\* booking is answered success=false, keeps the booking's status and writes no
\* table.
C6_TerminalNotCancellable ==
    [][(/\ CancelUserBookingStep
        /\ res'.req.bookingId \in DOMAIN bookings
        /\ bookings[res'.req.bookingId].email = res'.req.email
        /\ Terminal(bookings, res'.req.bookingId))
       => (/\ res'.success = FALSE
           /\ bookings' = bookings
           /\ tables' = tables)]_vars

\* the owner was just refused the cancellation of a Completed booking whose
\* table is not 'available'
C6_Witness ==
    /\ res.op = "cancelUserBooking"
    /\ res.success = FALSE
    /\ res.message = MsgCannotCancelCompleted
    /\ res.req.bookingId \in DOMAIN bookings
    /\ LET booking == bookings[res.req.bookingId]
       IN  /\ booking.email = res.req.email
           /\ booking.status = "Completed"
           /\ booking.tableId \in DOMAIN tables
           /\ tables[booking.tableId].status = "occupied"

\* C7: every stored booking has hasPreOrder = true exactly when its
\* preOrderedItems is not empty.
C7_HasPreOrderIffItems ==
    \A b \in DOMAIN bookings :
        (bookings[b].hasPreOrder = "true") <=> (Len(bookings[b].preOrderedItems) > 0)

\* a booking with items whose status was updated since, next to one created
\* with an empty list of items
C7_Witness ==
    \E b1, b2 \in DOMAIN bookings :
        /\ Len(bookings[b1].preOrderedItems) = MaxItems
        /\ bookings[b1].hasPreOrder = "true"
        /\ bookings[b1].status = "Confirmed"
        /\ bookings[b2].preOrderedItems = <<>>
        /\ bookings[b2].hasPreOrder = "false"

C9_DuplicateTableRejected ==
    [][(/\ AddTableStep
        /\ \E t \in DOMAIN tables : tables[t].tableNumber = res'.req.tableNumber)
       => (/\ res'.success = FALSE
           /\ res'.message = MsgTableExists
           /\ tables' = tables
           /\ nextTableId' = nextTableId)]_vars

\* the number of a stored, deactivated table was just refused
C9_Witness ==
    /\ res.op = "addTable"
    /\ res.message = MsgTableExists
    /\ \E t \in DOMAIN tables :
          /\ tables[t].tableNumber = res.req.tableNumber
          /\ ~tables[t].isActive

\* C10: after a successful createBooking the new booking is Pending; with a
\* tableId the table it names is 'reserved' whatever it was before, and no
\* other table changes; without a tableId no table changes.
C10_CreatedPendingAndReserved ==
    [][(CreateBookingStep /\ res'.success)
       => (/\ DOMAIN bookings' = DOMAIN bookings \cup {nextBookingId}
           /\ nextBookingId \notin DOMAIN bookings
           /\ bookings'[nextBookingId].status = "Pending"
           /\ DOMAIN tables' = DOMAIN tables
           /\ \A t \in DOMAIN tables :
                 tables'[t] = IF t = res'.req.tableId
                              THEN [tables[t] EXCEPT !.status = "reserved"]
                              ELSE tables[t])]_vars

\* a second booking was just created, on a stored table: the table is
\* 'reserved' and the new booking Pending
C10_Witness ==
    /\ res.op = "createBooking"
    /\ res.success
    /\ res.req.tableId \in DOMAIN tables
    /\ tables[res.req.tableId].status = "reserved"
    /\ nextBookingId - 1 \in DOMAIN bookings
    /\ bookings[nextBookingId - 1].status = "Pending"
    /\ bookings[nextBookingId - 1].tableId = res.req.tableId
    /\ Cardinality(DOMAIN bookings) = 2

\* C11: getAvailableTables(date, time, guests) returns exactly the tables with
\* isActive = true, capacity >= guests when guests is given, a status other
\* than 'maintenance' and, when date and time are both given, no Pending or
\* Confirmed booking of the table on that calendar day at that exact time.
C11_ExactlyTheFreeTables ==
    [][GetAvailableTablesStep
       => /\ res'.success
          /\ Range(res'.data) =
               {t \in DOMAIN tables :
                   /\ tables[t].isActive
                   /\ res'.req.guests # 0 => tables[t].capacity >= res'.req.guests
                   /\ tables[t].status # "maintenance"
                   /\ (res'.req.date # NoDate /\ res'.req.time # "")
                      => ~\E b \in DOMAIN bookings :
                            /\ bookings[b].tableId = t
                            /\ DayOf(bookings[b].date) = DayOf(res'.req.date)
                            /\ bookings[b].time = res'.req.time
                            /\ Active(bookings, b)}]_vars

\* C12: a createBooking that passed its pre-check is saved as a Pending
\* booking of its slot when it resumes, whatever was stored in the meantime;
\* so two requests for one (tableId, date, time) that both passed the
\* pre-check both succeed and leave two Pending bookings (C12_Witness).
C12_SavedWithoutSecondCheck ==
    [][\A r \in BagToSet(inflight) :
          (/\ r.op = "createBooking"
           /\ r.pc = "save"
           /\ CopiesIn(r, inflight') < CopiesIn(r, inflight))
          => /\ DOMAIN bookings' = DOMAIN bookings \cup {nextBookingId}
             /\ nextBookingId \notin DOMAIN bookings
             /\ bookings'[nextBookingId].status = "Pending"
             /\ bookings'[nextBookingId].tableId = r.req.tableId
             /\ bookings'[nextBookingId].date = r.req.date
             /\ bookings'[nextBookingId].time = r.req.time]_vars

\* both requests have been answered, the last one success=true, and two
\* Pending bookings share the table, the date and the time
C12_Witness ==
    /\ inflight = EmptyBag
    /\ res.op = "createBooking"
    /\ res.success
    /\ \E b1, b2 \in DOMAIN bookings :
          /\ b1 # b2
          /\ bookings[b1].tableId \in DOMAIN tables
          /\ bookings[b1].tableId = bookings[b2].tableId
          /\ bookings[b1].date = bookings[b2].date
          /\ bookings[b1].time = bookings[b2].time
          /\ bookings[b1].status = "Pending"
          /\ bookings[b2].status = "Pending"
          /\ bookings[b1].email # bookings[b2].email

\* C13: a submit sets the token and closes the popup only when the response
\* has success = true; when the response has success = false or the request
\* fails, the token and the popup stay as they were; and the loading flag set
\* at submit is false again in the end.
C13_TokenOnlyOnSuccess ==
    /\ [][(\E r \in BagToSet(inflight) :
              r.op = "onLogin" /\ CopiesIn(r, inflight') < CopiesIn(r, inflight))
          => IF response'.settled = "resolved" /\ response'.success
             THEN token' = response'.token /\ showLogin' = FALSE
             ELSE token' = token /\ showLogin' = showLogin]_vars
    /\ [][token' # token
          => /\ response'.settled = "resolved" /\ response'.success
             /\ inflight' # inflight]_vars
    /\ (loading ~> ~loading)

\* a submit with a wrong password was answered success = false: the message
\* was alerted, the popup is still open, no token is set, loading is over
C13_Witness ==
    /\ response.settled = "resolved"
    /\ ~response.success
    /\ alerted = response.message
    /\ data.password = "wrong"
    /\ showLogin
    /\ token = ""
    /\ ~loading
    /\ inflight = EmptyBag

\* C14: every change of a stored booking's status is one of Pending ->
\* Confirmed, Confirmed -> Completed, Pending -> Cancelled and Confirmed ->
\* Cancelled.
C14_LifecycleTransitionsOnly ==
    [][\A b \in DOMAIN bookings \cap DOMAIN bookings' :
          bookings'[b].status # bookings[b].status
          => <<bookings[b].status, bookings'[b].status>> \in
                {<<"Pending", "Confirmed">>, <<"Confirmed", "Completed">>,
                 <<"Pending", "Cancelled">>, <<"Confirmed", "Cancelled">>}]_vars

\* C15: a successful updateBookingStatus to Confirmed on a booking linked to
\* table t sets t 'reserved' whatever t's status was and changes no other
\* table; a successful updateBookingStatus to a status other than Confirmed,
\* Completed and Cancelled, or on a booking without a table, changes no table.
C15_ConfirmReservesOthersNoEffect ==
    [][(UpdateBookingStatusStep /\ res'.success)
       => LET t == bookings[res'.req.bookingId].tableId
              status == res'.req.status
          IN  /\ (status = "Confirmed" /\ t # Null)
                 => /\ DOMAIN tables' = DOMAIN tables
                    /\ \A x \in DOMAIN tables :
                          tables'[x] = IF x = t
                                       THEN [tables[x] EXCEPT !.status = "reserved"]
                                       ELSE tables[x]
              /\ (status \notin {"Confirmed", "Completed", "Cancelled"} \/ t = Null)
                 => tables' = tables]_vars

\* a booking was just confirmed and its table is 'reserved', while another
\* booking has no table
C15_Witness ==
    /\ res.op = "updateBookingStatus"
    /\ res.success
    /\ res.req.status = "Confirmed"
    /\ res.req.bookingId \in DOMAIN bookings
    /\ bookings[res.req.bookingId].status = "Confirmed"
    /\ bookings[res.req.bookingId].tableId \in DOMAIN tables
    /\ tables[bookings[res.req.bookingId].tableId].status = "reserved"
    /\ \E b \in DOMAIN bookings : bookings[b].tableId = Null

\* C16: deleteBooking of a stored booking removes it whatever its status and,
\* when it was linked to table t, leaves t 'available' if no remaining booking
\* of t dated within the current day is Pending or Confirmed and leaves t as
\* it was otherwise; deleteBooking of an id that is not stored is answered
\* success=false and changes neither store.
C16_DeleteRemovesAndReleases ==
    [][DeleteBookingStep
       => LET b == res'.req.bookingId
          IN  IF b \in DOMAIN bookings
              THEN LET t == bookings[b].tableId
                       remaining == {o \in DOMAIN bookings \ {b} :
                                        /\ bookings[o].tableId = t
                                        /\ DayOf(bookings[o].date) = today
                                        /\ Active(bookings, o)}
                   IN  /\ res'.success
                       /\ DOMAIN bookings' = DOMAIN bookings \ {b}
                       /\ \A o \in DOMAIN bookings' : bookings'[o] = bookings[o]
                       /\ DOMAIN tables' = DOMAIN tables
                       /\ \A x \in DOMAIN tables :
                             tables'[x] = IF x = t /\ remaining = {}
                                          THEN [tables[x] EXCEPT !.status = "available"]
                                          ELSE tables[x]
              ELSE /\ res'.success = FALSE
                   /\ bookings' = bookings
                   /\ tables' = tables]_vars

\* C17: the pre-check of createBooking compares the time as a string: a
\* complete request for table t and day d, when t has an active booking on d
\* at another time and none at the requested time, is not refused as a
\* conflict and succeeds.
C17_OtherTimeNotAConflict ==
    [][(/\ CreateBookingStep
        /\ ~MissingRequired(res'.req)
        /\ res'.req.tableId # Null
        /\ \E b \in DOMAIN bookings :
              /\ bookings[b].tableId = res'.req.tableId
              /\ DayOf(bookings[b].date) = DayOf(res'.req.date)
              /\ bookings[b].time # res'.req.time
              /\ Active(bookings, b)
        /\ ~\E b \in DOMAIN bookings :
              /\ bookings[b].tableId = res'.req.tableId
              /\ DayOf(bookings[b].date) = DayOf(res'.req.date)
              /\ bookings[b].time = res'.req.time
              /\ Active(bookings, b))
       => (/\ res'.success
           /\ res'.message # MsgAlreadyBooked
           /\ nextBookingId \in DOMAIN bookings'
           /\ bookings'[nextBookingId].time = res'.req.time)]_vars

\* a request for 18:30 just succeeded on a table that has an active booking
\* at 18:00 on the same date
C17_Witness ==
    /\ res.op = "createBooking"
    /\ res.success
    /\ res.req.time = "18:30"
    /\ \E b1, b2 \in DOMAIN bookings :
          /\ b2 = nextBookingId - 1
          /\ bookings[b1].tableId \in DOMAIN tables
          /\ bookings[b1].tableId = bookings[b2].tableId
          /\ bookings[b1].date = bookings[b2].date
          /\ bookings[b1].time = "18:00"
          /\ bookings[b2].time = "18:30"
          /\ Active(bookings, b1)
          /\ bookings[b2].status = "Pending"

\* C18: deleteTable leaves the booking store as it was (every booking of the
\* deleted table is still stored, with its tableId, tableNumber, tableName and
\* status), and deleteTable of a stored table succeeds and removes the table
\* even when Pending or Confirmed bookings reference it.
C18_DeleteTableKeepsBookings ==
    [][DeleteTableStep
       => /\ bookings' = bookings
          /\ \A b \in DOMAIN bookings :
                bookings[b].tableId = res'.req.tableId
                => /\ b \in DOMAIN bookings'
                   /\ bookings'[b].tableId = bookings[b].tableId
                   /\ bookings'[b].tableNumber = bookings[b].tableNumber
                   /\ bookings'[b].tableName = bookings[b].tableName
                   /\ bookings'[b].status = bookings[b].status
          /\ res'.req.tableId \in DOMAIN tables
             => /\ res'.success
                /\ tables' = [t \in DOMAIN tables \ {res'.req.tableId} |-> tables[t]]]_vars

\* a table was just deleted and a Confirmed booking still carries its _id,
\* its number and its name
C18_Witness ==
    /\ res.op = "deleteTable"
    /\ res.success
    /\ res.req.tableId \notin DOMAIN tables
    /\ \E b \in DOMAIN bookings :
          /\ bookings[b].tableId = res.req.tableId
          /\ bookings[b].tableNumber = 5
          /\ bookings[b].tableName = "Window"
          /\ bookings[b].status = "Confirmed"

\* C19: when a createBooking for table t dated today and a cancellation of
\* another booking of t have both been answered, t is 'reserved': with no
\* request in flight, a table with a Cancelled booking and another, Pending
\* booking dated today is 'reserved'.
C19_ReservedAfterCreateAndCancel ==
    (/\ inflight = EmptyBag
     /\ res.success)
    => \A b1, b2 \in DOMAIN bookings :
          (/\ b1 # b2
           /\ bookings[b1].tableId \in DOMAIN tables
           /\ bookings[b2].tableId = bookings[b1].tableId
           /\ bookings[b1].status = "Cancelled"
           /\ bookings[b2].status = "Pending"
           /\ DayOf(bookings[b2].date) = today)
          => tables[bookings[b1].tableId].status = "reserved"

\* C20: while the date stays the same and the administration writes no table
\* status, a table with a Pending or Confirmed booking dated today is never
\* 'available'.
C20_BookedTableNotAvailable ==
    \A t \in DOMAIN tables :
        (\E b \in DOMAIN bookings :
            /\ bookings[b].tableId = t
            /\ Active(bookings, b)
            /\ DayOf(bookings[b].date) = today)
        => tables[t].status # "available"

\* C21: a createBooking with a tableId succeeds only for a table that
\* getAvailableTables would return for the same date, time and guests in the
\* same state: never for a table that is not stored, is inactive, is in
\* 'maintenance' or has a capacity below the party size.
C21_BookedTableWasOffered ==
    [][(/\ CreateBookingStep
        /\ res'.success
        /\ res'.req.tableId # Null)
       => /\ res'.req.tableId \in
                AvailableTables(tables, bookings,
                                [date |-> res'.req.date, time |-> res'.req.time,
                                 guests |-> res'.req.guests])
          /\ res'.req.tableId \in DOMAIN tables
          /\ tables[res'.req.tableId].isActive
          /\ tables[res'.req.tableId].status # "maintenance"
          /\ tables[res'.req.tableId].capacity >= res'.req.guests]_vars

\* C22: whenever createBooking answers success=false (a required field is
\* missing, the slot is taken, or a storage call throws at any step) the
\* booking store and the table store are what they were before the request.
C22_RefusedChangesNothing ==
    [][((CreateBookingStep \/ CreateBookingThrowsStep) /\ res'.success = FALSE)
       => (bookings' = bookings /\ tables' = tables)]_vars

====
